---- MODULE Spec2Model ----
(***************************************************************************)
(* Model of www/browser/Media.js: one Media controller, its Audio node,    *)
(* its MediaRecorder objects and the platform callbacks that drive them.   *)
(*                                                                         *)
(* Strings are sequences of tokens: the separators "/", ".", ":", "?",     *)
(* "#" are one token each, and a run of other characters is one token.     *)
(***************************************************************************)
EXTENDS Integers, Sequences, FiniteSets, TLC

\* ------------------------------------------------------------------ bounds
MaxRecorders == 2
MaxPendingRecord == 2
MaxPendingLoad == 1
MaxEvents == 3
MaxChunks == 2
MaxDevices == 2
MaxProbes == 2
MaxCalls == 3

\* ------------------------------------------------------- program constants
MEDIA_STATE == 1
MEDIA_DURATION == 2
MEDIA_POSITION == 3
MEDIA_ERROR == 9

MODE_NONE == 0
MODE_PLAY == 1
MODE_RECORD == 2

MEDIA_NONE == 0
MEDIA_STARTING == 1
MEDIA_RUNNING == 2
MEDIA_PAUSED == 3
MEDIA_STOPPED == 4
\* readyPlayer names Media.MEDIA_LOADING in a case label (line 157), but no
\* such property is defined next to the states (lines 266-272): the label is
\* undefined, which is none of the numbers; -1 stands for it
MEDIA_LOADING == -1

\* MediaError codes (global MediaError of the platform bridge)
MEDIA_ERR_ABORTED == "MEDIA_ERR_ABORTED"
MEDIA_ERR_NONE_ACTIVE == "MEDIA_ERR_NONE_ACTIVE"
MEDIA_ERR_SRC_NOT_SUPPORTED == "MEDIA_ERR_SRC_NOT_SUPPORTED"
MEDIA_ERR_NETWORK == "MEDIA_ERR_NETWORK"
\* the code of a notification that carries none
NoCode == "none"

\* null / undefined / false of the source
Null == [null |-> TRUE]
Undefined == <<"undefined">>
False == <<"false">>
NoValue == [defined |-> FALSE]
Defined(v) == [defined |-> TRUE, value |-> v]

\* what an operation hands back: a return value, or the argument of the
\* success / fail callback of getCurrentPosition
NoRet == [kind |-> "none", value |-> 0]
Ret(kind, v) == [kind |-> kind, value |-> v]

\* ------------------------------------------------------------ string tools
StartsWith(s, p) == Len(s) >= Len(p) /\ SubSeq(s, 1, Len(p)) = p

\* String.prototype.indexOf: 0-based index of the first occurrence, or -1
IndexOf(s, p) ==
    LET hits == {i \in 1..(Len(s) - Len(p) + 1) : SubSeq(s, i, i + Len(p) - 1) = p}
    IN  IF hits = {} THEN -1
        ELSE (CHOOSE i \in hits : \A j \in hits : i <= j) - 1

\* String.prototype.replace with a string pattern: first occurrence only
Replace(s, p, r) ==
    LET i == IndexOf(s, p)
    IN  IF i = -1 THEN s
        ELSE SubSeq(s, 1, i) \o r \o SubSeq(s, i + Len(p) + 1, Len(s))

\* s.replace(/[?#].*$/, '')
StripQueryHash(s) ==
    LET cut == {i \in 1..Len(s) : s[i] \in {"?", "#"}}
    IN  IF cut = {} THEN s
        ELSE SubSeq(s, 1, (CHOOSE i \in cut : \A j \in cut : i <= j) - 1)

\* s.split(sep).pop()
LastPart(s, sep) ==
    LET at == {i \in 1..Len(s) : s[i] = sep}
    IN  IF at = {} THEN s
        ELSE SubSeq(s, (CHOOSE i \in at : \A j \in at : i >= j) + 1, Len(s))

\* s.split(sep).length
PartCount(s, sep) == Cardinality({i \in 1..Len(s) : s[i] = sep}) + 1

LowerTok(t) ==
    CASE t = "MP4" -> "mp4"
      [] t = "M4A" -> "m4a"
      [] t = "WEBM" -> "webm"
      [] t = "OGG" -> "ogg"
      [] t = "XYZ" -> "xyz"
      [] OTHER -> t

\* String.prototype.toLowerCase
ToLowerCase(s) == [i \in 1..Len(s) |-> LowerTok(s[i])]

\* recordFile.split('/').pop().split('.').slice(-2)[1] || ''
FileExt(recordFile) ==
    LET name == LastPart(recordFile, "/")
    IN  IF PartCount(name, ".") >= 2 THEN LastPart(name, ".") ELSE <<>>

\* --------------------------------------------------- platform string values
\* cordova-plugin-file.fileSystemPaths of the browser platform
applicationDirectory == <<"http", ":", "/", "/", "origin", "/">>
cacheDirectory == <<"filesystem", ":", "file", ":", "/", "/", "/", "temporary", "/">>
dataDirectory == <<"filesystem", ":", "file", ":", "/", "/", "/", "persistent", "/">>

\* fileEntry.toURL() of the entry named by the last path segment of a locator
ToURL(path) ==
    LET fs == IF \E i \in 1..Len(path) : path[i] = "persistent"
              THEN "persistent" ELSE "temporary"
    IN  <<"filesystem", ":">> \o applicationDirectory \o <<fs, "/">>
            \o LastPart(StripQueryHash(path), "/")

\* window.URL.createObjectURL for the content of recorder rid
CreateObjectURL(rid) == <<"blob", ":", "uuid", ToString(rid)>>

\* the sources a controller is constructed with
SrcPool ==
    { <<>>,
      <<"clip", ".", "webm">>,
      <<"clip", ".", "M4A">>,
      <<"clip", ".", "xyz">>,
      <<"blob", ":", "uuid", "0">>,
      <<"http", ":", "/", "/", "host", "/", "a", ".", "ogg">>,
      cacheDirectory \o <<"rec", ".", "mp4">>,
      dataDirectory \o <<"rec">> }

\* ------------------------------------------------------------------- state
VARIABLES
    env,              \* the platform: capture API, filesystem plugin, encoder types
    mediaObjects,     \* the registry: the ids that map to a controller
    mode, state, src, node, recorder,
    _duration, _position, _recordFileMime,
    duration,         \* the property written by readyPlayer (not _duration)
    recorders,        \* every MediaRecorder constructed so far, by identity
    pendingRecord,    \* getUserMedia promises not yet settled
    pendingLoad,      \* resolveLocalFileSystemURL requests not yet answered
    notes,            \* Media.onStatus deliveries of the last step
    invoked,          \* the application callbacks those deliveries invoked
    calls,            \* platform calls issued by the last step
    thrown,           \* the last step ended by an uncaught exception
    ret,              \* value returned (or passed to success/fail) by the last step
    lastOp,           \* the operation or event handler that ran last
    budget,           \* calls the application may still make
    devices,          \* the platform's media devices, by kind
    probes            \* the Media.isRecordSupported calls made so far

vars == <<env, mediaObjects, mode, state, src, node, recorder, _duration, _position,
          _recordFileMime, duration, recorders, pendingRecord, pendingLoad,
          notes, invoked, calls, thrown, ret, lastOp, budget, devices, probes>>

\* the controller and everything a handler can touch, as one value
Cur ==
    [mode |-> mode, state |-> state, src |-> src, node |-> node,
     recorder |-> recorder, _duration |-> _duration, _position |-> _position,
     _recordFileMime |-> _recordFileMime, duration |-> duration,
     recorders |-> recorders, pendingRecord |-> pendingRecord,
     pendingLoad |-> pendingLoad, mediaObjects |-> mediaObjects,
     notes |-> <<>>, invoked |-> <<>>, calls |-> <<>>, thrown |-> FALSE, ret |-> NoRet]

\* a recorder that is inactive with no event and no file-system request
\* outstanding can never run a handler again: only its tracks, the number of
\* blobs it produced and the artifact assembled from them are remembered
Collected(r) ==
    IF r.state = "inactive" /\ r.events = <<>> /\ r.fin \in {"idle", "done"}
    THEN [state |-> "inactive", mimeType |-> Undefined, recordFile |-> False,
          fileFallback |-> FALSE, chunks |-> <<>>, events |-> <<>>,
          live |-> r.live, fin |-> "done", truncated |-> FALSE,
          produced |-> r.produced, blobs |-> <<>>, content |-> r.content]
    ELSE r

Commit(m, op) ==
    /\ \A i \in 1..Len(m.recorders) : Len(m.recorders[i].events) <= MaxEvents
    /\ mode' = m.mode /\ state' = m.state /\ src' = m.src /\ node' = m.node
    /\ recorder' = m.recorder /\ _duration' = m._duration
    /\ _position' = m._position /\ _recordFileMime' = m._recordFileMime
    /\ duration' = m.duration
    /\ recorders' = [i \in 1..Len(m.recorders) |-> Collected(m.recorders[i])]
    /\ pendingRecord' = m.pendingRecord /\ pendingLoad' = m.pendingLoad
    /\ mediaObjects' = m.mediaObjects
    /\ notes' = m.notes /\ invoked' = m.invoked /\ calls' = m.calls /\ thrown' = m.thrown
    /\ ret' = m.ret /\ lastOp' = op
    /\ UNCHANGED <<env, devices, probes>>

\* a step of the platform (an event or a callback)
Event(m, op) == Commit(m, op) /\ UNCHANGED budget

\* a call the application makes
Invoke(m, op) == budget > 0 /\ budget' = budget - 1 /\ Commit(m, op)

\* the id under which the controller is registered in mediaObjects
id == "uuid-1"

Note(msgType, value, code, message) ==
    [msgType |-> msgType, value |-> value, code |-> code, message |-> message]

Call(m, c) == [m EXCEPT !.calls = Append(@, c)]
Throw(m) == [m EXCEPT !.thrown = TRUE]

\* --------------------------------------------------------- Media.onStatus
\* the callbacks the application passed to the constructor
callbacks ==
    {"successCallback", "errorCallback", "statusCallback", "durationUpdateCallback"}

Maybe(cb, has) == IF cb \in has THEN <<cb>> ELSE <<>>

Dispatch_successAlways(msgType, value, has) ==
    CASE msgType = MEDIA_STATE ->
            Maybe("statusCallback", has) \o Maybe("successCallback", has)
      [] msgType = MEDIA_DURATION -> Maybe("durationUpdateCallback", has)
      [] msgType = MEDIA_ERROR -> Maybe("errorCallback", has)
      [] OTHER -> <<>>

\* the callbacks the switch of Media.onStatus invokes, in order
Dispatch(msgType, value, has) ==
    CASE msgType = MEDIA_STATE ->
            Maybe("statusCallback", has)
              \o (IF value = MEDIA_STOPPED THEN Maybe("successCallback", has) ELSE <<>>)
      [] msgType = MEDIA_DURATION -> Maybe("durationUpdateCallback", has)
      [] msgType = MEDIA_ERROR -> Maybe("errorCallback", has)
      [] OTHER -> <<>>

onStatus_anyId(m, i, msgType, note) ==
    LET m1 == [m EXCEPT !.invoked = @ \o Dispatch(msgType, note.value, callbacks)]
    IN  CASE msgType = MEDIA_STATE ->
                [m1 EXCEPT !.notes = Append(@, note)]
          [] msgType = MEDIA_DURATION ->
                [m1 EXCEPT !._duration = note.value, !.notes = Append(@, note)]
          [] msgType = MEDIA_ERROR ->
                [m1 EXCEPT !.notes = Append(@, note)]
          [] msgType = MEDIA_POSITION ->
                [m1 EXCEPT !._position = note.value, !.notes = Append(@, note)]
          [] OTHER -> m1

onStatus(m, i, msgType, note) ==
    IF i \notin m.mediaObjects THEN m
    ELSE LET m1 == [m EXCEPT !.invoked = @ \o Dispatch(msgType, note.value, callbacks)]
         IN  CASE msgType = MEDIA_STATE ->
                    [m1 EXCEPT !.notes = Append(@, note)]
               [] msgType = MEDIA_DURATION ->
                    [m1 EXCEPT !._duration = note.value, !.notes = Append(@, note)]
               [] msgType = MEDIA_ERROR ->
                    [m1 EXCEPT !.notes = Append(@, note)]
               [] msgType = MEDIA_POSITION ->
                    [m1 EXCEPT !._position = note.value, !.notes = Append(@, note)]
               [] OTHER -> m1

sendErrorStatus(m, i, code, message) ==
    onStatus(m, i, MEDIA_ERROR, Note(MEDIA_ERROR, -1, code, message))

setState_skipCheck(m, s) ==
    [onStatus(m, id, MEDIA_STATE, Note(MEDIA_STATE, s, NoCode, "")) EXCEPT !.state = s]

setState(m, s) ==
    LET m1 == IF m.state # s
              THEN onStatus(m, id, MEDIA_STATE, Note(MEDIA_STATE, s, NoCode, ""))
              ELSE m
    IN  [m1 EXCEPT !.state = s]

\* ------------------------------------------------------------- Audio node
\* new Audio(): nothing loaded, paused
NewNode == [src |-> <<>>, paused |-> TRUE, ended |-> FALSE, currentTime |-> 0, volume |-> 1]

hasScheme(s) == IndexOf(s, <<":">>) # -1

\* the src getter of the element: the assigned URL resolved against the document
NodeSrc(n) ==
    IF n.src = <<>> THEN <<>>
    ELSE IF hasScheme(n.src) THEN n.src ELSE applicationDirectory \o n.src

\* /^((http|https|rtsp|):\/\/|blob:)/.test(src) || src.indexOf('://') === -1
isStreaming(s) ==
    \/ \E sch \in {<<"http">>, <<"https">>, <<"rtsp">>, <<>>} :
          StartsWith(s, sch \o <<":", "/", "/">>)
    \/ StartsWith(s, <<"blob", ":">>)
    \/ IndexOf(s, <<":", "/", "/">>) = -1

playMode_recordAllowed(m) ==
    IF m.mode = MODE_PLAY THEN [m |-> m, ok |-> TRUE]
    ELSE [m |-> [m EXCEPT !.mode = MODE_PLAY], ok |-> TRUE]

playMode(m) ==
    CASE m.mode = MODE_NONE -> [m |-> [m EXCEPT !.mode = MODE_PLAY], ok |-> TRUE]
      [] m.mode = MODE_PLAY -> [m |-> m, ok |-> TRUE]
      [] m.mode = MODE_RECORD ->
            [m |-> sendErrorStatus(m, id, MEDIA_ERR_ABORTED,
                                   "Error: Can't play in record mode."),
             ok |-> FALSE]
      [] OTHER -> [m |-> m, ok |-> FALSE]

\* the callbacks play() and seekTo() hand to readyPlayer
PlayCb == [kind |-> "play", p |-> 0]
SeekCb(p) == [kind |-> "seekTo", p |-> p]

RunCallback(m, cb, isReady) ==
    IF ~isReady THEN m
    ELSE IF cb.kind = "play"
    THEN IF m.node = Null THEN Throw(m)
         ELSE Call([m EXCEPT !.node.paused = FALSE, !.node.ended = FALSE,
                             !.node.currentTime = IF m.node.ended THEN 0 ELSE @],
                   "node.play")
    ELSE IF m.node = Null
         THEN onStatus(m, id, MEDIA_ERROR,
                       Note(MEDIA_ERROR, -1, NoCode, "TypeError"))
         ELSE onStatus([m EXCEPT !.node.currentTime = cb.p], id, MEDIA_POSITION,
                       Note(MEDIA_POSITION, cb.p, NoCode, ""))

nodeLoadSrc_running(m, s, cb) ==
    IF m.node = Null THEN Throw(m)
    ELSE LET m1 == Call([m EXCEPT !.node.src = s, !.node.paused = TRUE,
                                  !.node.ended = FALSE,
                                  !.node.currentTime = 0], "node.load")
             m2 == setState(m1, MEDIA_RUNNING)
         IN  RunCallback(m2, cb, TRUE)

nodeLoadSrc_loading(m, s, cb) ==
    IF m.node = Null THEN Throw(m)
    ELSE LET m1 == Call([m EXCEPT !.node.src = s, !.node.paused = TRUE,
                                  !.node.ended = FALSE,
                                  !.node.currentTime = 0], "node.load")
             m2 == setState(m1, MEDIA_LOADING)
         IN  RunCallback(m2, cb, TRUE)

nodeLoadSrc(m, s, cb) ==
    IF m.node = Null THEN Throw(m)
    ELSE LET m1 == Call([m EXCEPT !.node.src = s, !.node.paused = TRUE,
                                  !.node.ended = FALSE,
                                  !.node.currentTime = 0], "node.load")
             m2 == setState(m1, MEDIA_STARTING)
         IN  RunCallback(m2, cb, TRUE)

\* the callback readyPlayer hands to loadAudioFile, applied to an Error
LoadFailed(m, cb, message) ==
    RunCallback(sendErrorStatus(m, id, MEDIA_ERR_ABORTED, message), cb, FALSE)

loadAudioFile_noSourceCheck(m, cb) ==
    IF isStreaming(m.src) THEN nodeLoadSrc(m, m.src, cb)
    ELSE IF ~env.fileSystem THEN LoadFailed(m, cb, "Error: browser not supported")
    ELSE Call([m EXCEPT !.pendingLoad = Append(@, [src |-> m.src, cb |-> cb])],
              "resolveLocalFileSystemURL")

loadAudioFile(m, cb) ==
    IF m.src = <<>> THEN LoadFailed(m, cb, "Error: no source provided")
    ELSE IF isStreaming(m.src) THEN nodeLoadSrc(m, m.src, cb)
    ELSE IF ~env.fileSystem THEN LoadFailed(m, cb, "Error: browser not supported")
    ELSE Call([m EXCEPT !.pendingLoad = Append(@, [src |-> m.src, cb |-> cb])],
              "resolveLocalFileSystemURL")

readyPlayer(m0, cb, audioThrows) ==
    LET pm == playMode(m0)
        m == pm.m
        create(mm) ==
            IF audioThrows
            THEN RunCallback(sendErrorStatus(mm, id, MEDIA_ERR_ABORTED, "undefined"),
                             cb, FALSE)
            ELSE loadAudioFile([mm EXCEPT !.node = NewNode], cb)
    IN  IF ~pm.ok THEN RunCallback(m, cb, FALSE)
        ELSE CASE m.state = MEDIA_NONE -> create(m)
               [] m.state = MEDIA_LOADING -> RunCallback(m, cb, FALSE)
               [] m.state \in {MEDIA_STARTING, MEDIA_RUNNING, MEDIA_PAUSED} ->
                    RunCallback(m, cb, TRUE)
               [] m.state = MEDIA_STOPPED ->
                    LET m1 == IF m.node # Null /\ NodeSrc(m.node) # m.src
                              THEN [Call(m, "node.pause") EXCEPT
                                        !.node = Null, !.duration = Defined(-1)]
                              ELSE m
                    IN  IF m1.node # Null THEN RunCallback(m1, cb, TRUE)
                        ELSE create(m1)
               [] OTHER ->
                    sendErrorStatus(m, id, MEDIA_ERR_ABORTED,
                        "Error: readyPlayer() called during invalid state: ")

\* ------------------------------------------------------ playback operations
play(m, audioThrows) == readyPlayer(m, PlayCb, audioThrows)

stop_noSeek(m) ==
    IF m.node # Null /\ m.state \in {MEDIA_RUNNING, MEDIA_PAUSED}
    THEN setState(Call([m EXCEPT !.node.paused = TRUE], "node.pause"), MEDIA_STOPPED)
    ELSE sendErrorStatus(m, id, MEDIA_ERR_NONE_ACTIVE,
                         "Error: stop() called during invalid state: ")

stop(m) ==
    IF m.node # Null /\ m.state \in {MEDIA_RUNNING, MEDIA_PAUSED}
    THEN setState(Call([m EXCEPT !.node.paused = TRUE, !.node.currentTime = 0],
                       "node.pause"),
                  MEDIA_STOPPED)
    ELSE sendErrorStatus(m, id, MEDIA_ERR_NONE_ACTIVE,
                         "Error: stop() called during invalid state: ")

seekTo(m, milliseconds, audioThrows) ==
    readyPlayer(m, SeekCb(milliseconds \div 1000), audioThrows)

pause_anyState(m) ==
    IF m.node # Null
    THEN setState(Call([m EXCEPT !.node.paused = TRUE], "node.pause"), MEDIA_PAUSED)
    ELSE sendErrorStatus(m, id, MEDIA_ERR_NONE_ACTIVE,
                         "Error: pause() called during invalid state: ")

pause(m) ==
    IF m.state = MEDIA_RUNNING /\ m.node # Null
    THEN setState(Call([m EXCEPT !.node.paused = TRUE], "node.pause"), MEDIA_PAUSED)
    ELSE sendErrorStatus(m, id, MEDIA_ERR_NONE_ACTIVE,
                         "Error: pause() called during invalid state: ")

getDuration(m) == IF m.recorder # 0 THEN -2 ELSE m._duration

getCurrentPosition(m) ==
    IF m.node = Null THEN [m EXCEPT !.ret = Ret("fail", 0)]
    ELSE [onStatus(m, id, MEDIA_POSITION,
                   Note(MEDIA_POSITION, m.node.currentTime, NoCode, ""))
            EXCEPT !.ret = Ret("success", m.node.currentTime)]

setVolume(m, volume) ==
    IF m.node # Null THEN [m EXCEPT !.node.volume = volume]
    ELSE onStatus(m, id, MEDIA_ERROR,
                  Note(MEDIA_ERROR, -1, MEDIA_ERR_NONE_ACTIVE,
                       "Error: Cannot set volume until the audio file is initialized."))

setRate(m) == onStatus(m, id, MEDIA_ERROR, Note(MEDIA_ERROR, -1, NoCode, "Not supported"))

getCurrentAmplitude(m) ==
    onStatus(m, id, MEDIA_ERROR, Note(MEDIA_ERROR, -1, NoCode, "Not supported"))

\* ------------------------------------------------------- Audio node events
\* the element is playing a loaded source
NodeActive(n) == n # Null /\ n.src # <<>> /\ ~n.paused /\ ~n.ended

onplaying(m) == setState(m, MEDIA_RUNNING)

onended(m) == setState([m EXCEPT !.node.ended = TRUE], MEDIA_STOPPED)

\* e.target.duration as the element reports it
RawDurations == {[finite |-> FALSE, value |-> 0], [finite |-> TRUE, value |-> 3]}

ondurationchange(m, raw) ==
    LET d == IF raw.finite THEN raw.value ELSE -1
    IN  onStatus(m, id, MEDIA_DURATION, Note(MEDIA_DURATION, d, NoCode, ""))

\* e.target.error.code values of the element
NodeErrorCodes == {MEDIA_ERR_NETWORK, MEDIA_ERR_SRC_NOT_SUPPORTED}

onerror(m, code) ==
    LET c == IF code = MEDIA_ERR_SRC_NOT_SUPPORTED THEN MEDIA_ERR_ABORTED ELSE code
    IN  onStatus(m, id, MEDIA_ERROR, Note(MEDIA_ERROR, -1, c, "native"))

\* resolveLocalFileSystemURL success callback of request k
resolveSuccess(m, k) ==
    LET req == m.pendingLoad[k]
        rest == SubSeq(m.pendingLoad, 1, k - 1)
                  \o SubSeq(m.pendingLoad, k + 1, Len(m.pendingLoad))
        url == ToURL(req.src)
        m1 == [m EXCEPT !.pendingLoad = rest, !.src = url]
    IN  nodeLoadSrc(m1, url \o <<"?", "__t=", "now">>, req.cb)

\* resolveLocalFileSystemURL error callback of request k
resolveError(m, k) ==
    LET req == m.pendingLoad[k]
        rest == SubSeq(m.pendingLoad, 1, k - 1)
                  \o SubSeq(m.pendingLoad, k + 1, Len(m.pendingLoad))
    IN  LoadFailed([m EXCEPT !.pendingLoad = rest], req.cb, "native")

\* ------------------------------------------------------------- recording
\* the arguments startRecord is called with
NoOptions == [kind |-> "undefined", has |-> FALSE, fileFallback |-> FALSE]
OptionsPool ==
    { NoOptions,
      [kind |-> "object", has |-> FALSE, fileFallback |-> FALSE],
      [kind |-> "object", has |-> TRUE, fileFallback |-> TRUE],
      [kind |-> "object", has |-> TRUE, fileFallback |-> FALSE] }

\* typeof options !== 'object' || !!options.fileFallback
FileFallback(options) ==
    options.kind # "object" \/ (options.has /\ options.fileFallback)

\* truthiness of a string-or-false / string-or-undefined value
Truthy(v) == v # False /\ v # Undefined /\ v # <<>>

hasBaseRecordSupport == env.recordSupport

isTypeSupported(mime) == mime \in env.types

\* lines 406-426: the record target, or the error that ends startRecord
RecordTarget(srcv) ==
    IF ~Truthy(srcv) THEN [ok |-> TRUE, recordFile |-> False]
    ELSE IF ~env.fileSystem THEN [ok |-> TRUE, recordFile |-> srcv]
    ELSE LET r1 == Replace(srcv, applicationDirectory, <<"file", ":", "/", "/", "/">>)
             r2 == Replace(r1, <<"cdvfile", ":", "/", "/", "localhost", "/">>,
                           <<"filesystem", ":", "file", ":", "/", "/">>)
             r3 == StripQueryHash(r2)
         IN  IF /\ IndexOf(r3, <<":">>) # -1
                /\ IndexOf(r3, cacheDirectory) = -1
                /\ IndexOf(r3, dataDirectory) = -1
             THEN [ok |-> FALSE, recordFile |-> r3]
             ELSE [ok |-> TRUE, recordFile |-> r3]

MimeOfExt_unknownIsWebm(ext, prev) ==
    LET e == ToLowerCase(ext)
    IN  CASE e \in {<<"mp4">>, <<"m4a">>} -> <<"audio/mp4">>
          [] e = <<"ogg">> -> <<"audio/ogg">>
          [] e = <<>> -> IF Truthy(prev) THEN prev ELSE False
          [] OTHER -> <<"audio/webm">>

MimeOfExt_caseSensitive(ext, prev) ==
    CASE ext = <<"webm">> -> <<"audio/webm">>
      [] ext \in {<<"mp4">>, <<"m4a">>} -> <<"audio/mp4">>
      [] ext = <<"ogg">> -> <<"audio/ogg">>
      [] ext = <<>> -> IF Truthy(prev) THEN prev ELSE False
      [] OTHER -> prev

\* the switch of lines 434-449
MimeOfExt(ext, prev) ==
    LET e == ToLowerCase(ext)
    IN  CASE e = <<"webm">> -> <<"audio/webm">>
          [] e \in {<<"mp4">>, <<"m4a">>} -> <<"audio/mp4">>
          [] e = <<"ogg">> -> <<"audio/ogg">>
          [] e = <<>> -> IF Truthy(prev) THEN prev ELSE False
          [] OTHER -> prev

\* lines 428-468: the mime type to record with, or the error that ends startRecord
SelectMime(recordFile, prev) ==
    IF Truthy(recordFile)
    THEN LET u == MimeOfExt(FileExt(recordFile), prev)
         IN  IF u = False
             THEN [ok |-> TRUE, message |-> "",
                   mime |-> IF isTypeSupported(<<"audio/webm">>)
                            THEN <<"audio/webm">> ELSE Undefined]
             ELSE IF ~Truthy(u)
             THEN [ok |-> FALSE, mime |-> u, message |->
                   "Error: Resource for recording must have webm/mp4/m4a/ogg extension"]
             ELSE IF ~isTypeSupported(u)
             THEN [ok |-> FALSE, mime |-> u, message |->
                   "Error: Resource for recording with unavailable mime type: "]
             ELSE [ok |-> TRUE, mime |-> u, message |-> ""]
    ELSE [ok |-> TRUE, message |-> "",
          mime |-> IF ~Truthy(prev) /\ isTypeSupported(<<"audio/webm">>)
                   THEN <<"audio/webm">> ELSE prev]

\* lines 378-602: the body of case Media.MODE_NONE
startRecordNone(m, options) ==
    LET srcv == IF ~StartsWith(m.src, <<"blob", ":">>) THEN m.src ELSE False
        fileFallback == FileFallback(options)
        target == RecordTarget(srcv)
        sel == SelectMime(target.recordFile, m._recordFileMime)
        recordFile == IF target.recordFile = False
                         \/ IndexOf(target.recordFile, <<":">>) = -1
                      THEN False ELSE target.recordFile
    IN  IF ~fileFallback /\ (~env.fileSystem \/ ~Truthy(srcv))
        THEN sendErrorStatus(m, id, MEDIA_ERR_ABORTED,
               "Error: Filesystem record not available and fallback disabled")
        ELSE IF ~target.ok
        THEN sendErrorStatus(m, id, MEDIA_ERR_ABORTED,
               "Error: Resource for recording can only be saved at cordova.file.cacheDirectory or cordova.file.dataDirectory.")
        ELSE IF ~sel.ok
        THEN sendErrorStatus(m, id, MEDIA_ERR_ABORTED, sel.message)
        ELSE Call([m EXCEPT
                     !._recordFileMime = sel.mime,
                     !.pendingRecord = Append(@,
                         [useMimeType |-> sel.mime,
                          recordFile |-> recordFile,
                          fileFallback |-> fileFallback])],
                  "getUserMedia")

startRecord_anyMode(m, options) ==
    IF ~hasBaseRecordSupport
    THEN sendErrorStatus(m, id, MEDIA_ERR_ABORTED,
                         "Error: Record is not supported in this device.")
    ELSE startRecordNone(m, options)

startRecord(m, options) ==
    IF ~hasBaseRecordSupport
    THEN sendErrorStatus(m, id, MEDIA_ERR_ABORTED,
                         "Error: Record is not supported in this device.")
    ELSE CASE m.mode = MODE_PLAY ->
                sendErrorStatus(m, id, MEDIA_ERR_ABORTED, "Error: Can't record in play mode.")
           [] m.mode = MODE_RECORD ->
                sendErrorStatus(m, id, MEDIA_ERR_ABORTED, "Error: Already recording.")
           [] m.mode = MODE_NONE -> startRecordNone(m, options)
           [] OTHER -> m

\* a MediaRecorder right after construction and recorder.start()
NewRecorder(req) ==
    [state |-> "recording", mimeType |-> req.useMimeType,
     recordFile |-> req.recordFile, fileFallback |-> req.fileFallback,
     chunks |-> <<>>, events |-> <<"start">>, live |-> TRUE,
     fin |-> "idle", truncated |-> FALSE,
     produced |-> 0, blobs |-> <<>>, content |-> Undefined]

RemoveAt(q, k) == SubSeq(q, 1, k - 1) \o SubSeq(q, k + 1, Len(q))

\* lines 478-598: getUserMedia resolved and the recorder was constructed
acquired(m, k) ==
    LET req == m.pendingRecord[k]
        rid == Len(m.recorders) + 1
    IN  Call([m EXCEPT !.pendingRecord = RemoveAt(@, k),
                       !.recorders = Append(@, NewRecorder(req)),
                       !.mode = MODE_RECORD,
                       !.recorder = rid],
             "recorder.start")

\* lines 599-601: getUserMedia rejected or the MediaRecorder constructor threw
acquireFailed(m, k) ==
    sendErrorStatus([m EXCEPT !.pendingRecord = RemoveAt(@, k)], id,
                    MEDIA_ERR_ABORTED, "Error: Can't start record. ")

\* MediaRecorder.requestData() and the flush of stop(): the encoder hands over
\* the data gathered so far as blob number produced + 1 and queues its
\* dataavailable event
RecorderData(m, rid) ==
    [m EXCEPT !.recorders[rid].produced = @ + 1,
              !.recorders[rid].blobs = Append(@, ToString(m.recorders[rid].produced + 1)),
              !.recorders[rid].events = Append(@, "dataavailable")]

\* MediaRecorder.stop(): inactive recorders ignore it
RecorderStop(m, rid) ==
    IF m.recorders[rid].state = "inactive" THEN Call(m, "recorder.stop")
    ELSE LET m1 == RecorderData(m, rid)
         IN  Call([m1 EXCEPT !.recorders[rid].state = "inactive",
                             !.recorders[rid].events = Append(@, "stop")],
                  "recorder.stop")

\* MediaRecorder.pause()
RecorderPause(m, rid) ==
    CASE m.recorders[rid].state = "inactive" -> Throw(Call(m, "recorder.pause"))
      [] m.recorders[rid].state = "paused" -> Call(m, "recorder.pause")
      [] OTHER -> Call([m EXCEPT !.recorders[rid].state = "paused",
                                 !.recorders[rid].events = Append(@, "pause")],
                       "recorder.pause")

\* MediaRecorder.resume()
RecorderResume(m, rid) ==
    CASE m.recorders[rid].state = "inactive" -> Throw(Call(m, "recorder.resume"))
      [] m.recorders[rid].state = "recording" -> Call(m, "recorder.resume")
      [] OTHER -> Call([m EXCEPT !.recorders[rid].state = "recording",
                                 !.recorders[rid].events = Append(@, "resume")],
                       "recorder.resume")

stopRecord(m) == IF m.recorder # 0 THEN RecorderStop(m, m.recorder) ELSE m

pauseRecord(m) ==
    IF m.recorder # 0 /\ m.recorders[m.recorder].state = "recording"
    THEN RecorderPause(m, m.recorder)
    ELSE m

resumeRecord_noFallback(m) ==
    IF m.recorder # 0 THEN RecorderResume(m, m.recorder)
    ELSE startRecord(m, [kind |-> "object", has |-> TRUE, fileFallback |-> FALSE])

resumeRecord(m) ==
    IF m.recorder # 0 THEN RecorderResume(m, m.recorder)
    ELSE startRecord(m, NoOptions)

release_keepNode(m) ==
    LET m1 == IF m.node # Null THEN Call(m, "node.pause") ELSE m
    IN  IF m1.recorder # 0
        THEN LET r == m1.recorder
                 m2 == [m1 EXCEPT !.recorder = 0]
             IN  IF m2.recorders[r].state = "recording"
                 THEN RecorderStop(m2, r)
                 ELSE m2
        ELSE m1

release_unregister(m) ==
    LET m1 == IF m.node # Null
              THEN [Call(m, "node.pause") EXCEPT !.node = Null]
              ELSE m
        m2 == [m1 EXCEPT !.mediaObjects = @ \ {id}]
    IN  IF m2.recorder # 0
        THEN LET r == m2.recorder
                 m3 == [m2 EXCEPT !.recorder = 0]
             IN  IF m3.recorders[r].state = "recording"
                 THEN RecorderStop(m3, r)
                 ELSE m3
        ELSE m2

release_stopAlways(m) ==
    LET m1 == IF m.node # Null
              THEN [Call(m, "node.pause") EXCEPT !.node = Null]
              ELSE m
    IN  IF m1.recorder # 0
        THEN RecorderStop([m1 EXCEPT !.recorder = 0], m1.recorder)
        ELSE m1

release(m) ==
    LET m1 == IF m.node # Null
              THEN [Call(m, "node.pause") EXCEPT !.node = Null]
              ELSE m
    IN  IF m1.recorder # 0
        THEN LET r == m1.recorder
                 m2 == [m1 EXCEPT !.recorder = 0]
             IN  IF m2.recorders[r].state = "recording"
                 THEN RecorderStop(m2, r)
                 ELSE m2
        ELSE m1

\* ----------------------------------------------------- recorder handlers
finish_noStopped(m, rid) ==
    [m EXCEPT !._duration = -1, !._position = -1, !.recorder = 0,
              !.mode = MODE_NONE, !.state = MEDIA_NONE]

\* function finish() of recorder.onstop
finish(m, rid) ==
    LET m1 == [m EXCEPT !._duration = -1, !._position = -1, !.recorder = 0]
        m2 == setState(m1, MEDIA_STOPPED)
    IN  [m2 EXCEPT !.mode = MODE_NONE, !.state = MEDIA_NONE]

finishAsBlob(m, rid) == finish([m EXCEPT !.src = CreateObjectURL(rid)], rid)

finishAsBlobOrAbort(m, rid, message) ==
    IF ~m.recorders[rid].fileFallback
    THEN finish(sendErrorStatus(m, id, MEDIA_ERR_ABORTED, message), rid)
    ELSE finishAsBlob(m, rid)

\* the file system (TEMPORARY or PERSISTENT) a record target lies in
FsOf(path) ==
    IF IndexOf(path, cacheDirectory) # -1 THEN "temporary" ELSE "persistent"

\* fileEntry.toURL() of the entry the recording is written to
EntryURL(recordFile) ==
    LET dir == IF FsOf(recordFile) = "temporary" THEN cacheDirectory ELSE dataDirectory
        fileName == SubSeq(recordFile, Len(dir), Len(recordFile))
    IN  <<"filesystem", ":">> \o applicationDirectory \o <<FsOf(recordFile)>> \o fileName

\* recorder.onstop
onstop(m, rid) ==
    LET r == m.recorders[rid]
        m1 == IF r.live
              THEN Call([m EXCEPT !.recorders[rid].live = FALSE], "track.stop")
              ELSE m
        m2 == [m1 EXCEPT !.recorders[rid].content = r.chunks]
    IN  IF m1.recorder = 0 THEN m1
        ELSE IF r.fileFallback /\ (~env.fileSystem \/ r.recordFile = False)
        THEN finishAsBlob(m2, rid)
        ELSE IF r.recordFile = False THEN Throw(m2)
        ELSE Call([m2 EXCEPT !.recorders[rid].fin = "requestFileSystem"],
                  "requestFileSystem")

recorderEvent_unshift(m, rid) ==
    LET ev == Head(m.recorders[rid].events)
        m1 == [m EXCEPT !.recorders[rid].events = Tail(@)]
    IN  CASE ev = "dataavailable" ->
                [m1 EXCEPT !.recorders[rid].chunks = <<Head(m.recorders[rid].blobs)>> \o @,
                           !.recorders[rid].blobs = Tail(@)]
          [] ev \in {"start", "resume"} -> setState(m1, MEDIA_RUNNING)
          [] ev = "pause" -> setState(m1, MEDIA_PAUSED)
          [] ev = "stop" -> onstop(m1, rid)

\* one event of recorder rid, delivered to the handler startRecord installed;
\* e.data of a dataavailable event is the oldest blob not yet delivered
recorderEvent(m, rid) ==
    LET ev == Head(m.recorders[rid].events)
        m1 == [m EXCEPT !.recorders[rid].events = Tail(@)]
    IN  CASE ev = "dataavailable" ->
                [m1 EXCEPT !.recorders[rid].chunks = Append(@, Head(m.recorders[rid].blobs)),
                           !.recorders[rid].blobs = Tail(@)]
          [] ev \in {"start", "resume"} -> setState(m1, MEDIA_RUNNING)
          [] ev = "pause" -> setState(m1, MEDIA_PAUSED)
          [] ev = "stop" -> onstop(m1, rid)

\* success callbacks of requestFileSystem, getFile and createWriter
fsSuccess(m, rid) ==
    CASE m.recorders[rid].fin = "requestFileSystem" ->
            Call([m EXCEPT !.recorders[rid].fin = "getFile"], "getFile")
      [] m.recorders[rid].fin = "getFile" ->
            Call([m EXCEPT !.recorders[rid].fin = "createWriter"], "createWriter")
      [] m.recorders[rid].fin = "createWriter" ->
            Call([m EXCEPT !.recorders[rid].fin = "truncate",
                           !.recorders[rid].truncated = FALSE],
                 "fileWriter.truncate")

\* error callbacks of requestFileSystem and getFile
fsError(m, rid) ==
    finishAsBlobOrAbort([m EXCEPT !.recorders[rid].fin = "done"], rid,
        IF m.recorders[rid].fin = "requestFileSystem"
        THEN "Error: Failed to request file system: "
        ELSE "Error: Failed to get file: ")

onwriteend_blob(m, rid) ==
    IF ~m.recorders[rid].truncated
    THEN Call([m EXCEPT !.recorders[rid].truncated = TRUE,
                        !.recorders[rid].fin = "write"],
              "fileWriter.write")
    ELSE finish([m EXCEPT !.src = CreateObjectURL(rid),
                          !.recorders[rid].fin = "done"], rid)

onwriteend_early(m, rid) ==
    finish([m EXCEPT !.src = EntryURL(m.recorders[rid].recordFile),
                     !.recorders[rid].truncated = TRUE,
                     !.recorders[rid].fin = "done"], rid)

\* fileWriter.onwriteend
onwriteend(m, rid) ==
    IF ~m.recorders[rid].truncated
    THEN Call([m EXCEPT !.recorders[rid].truncated = TRUE,
                        !.recorders[rid].fin = "write"],
              "fileWriter.write")
    ELSE finish([m EXCEPT !.src = EntryURL(m.recorders[rid].recordFile),
                          !.recorders[rid].fin = "done"], rid)

\* fileWriter.onerror; the writer fires writeend right after error
writerError(m, rid) ==
    onwriteend(finishAsBlobOrAbort(m, rid, "Error: Failed to write file: "), rid)

\* ------------------------------------------------ Media.isRecordSupported
\* MediaDeviceInfo.kind
DeviceKinds == {"audioinput", "audiooutput", "videoinput"}

\* the device lists enumerateDevices can resolve with
DevicePool == UNION {[1..n -> DeviceKinds] : n \in 0..MaxDevices}

\* one call: what is outstanding, the filtered list, the values win received
NewProbe(phase) == [phase |-> phase, audioDevices |-> <<>>, answers |-> <<>>]

\* Media.isRecordSupported(win) up to its return
isRecordSupported(ps) ==
    IF ~hasBaseRecordSupport THEN Append(ps, NewProbe("timer"))
    ELSE Append(ps, NewProbe("enumerate"))

\* the setTimeout callback
timerFired(ps, k) ==
    [ps EXCEPT ![k].phase = "done", ![k].answers = Append(@, FALSE)]

\* enumerateDevices resolved: the first then callback filters the list
filterDevices(ps, k) ==
    [ps EXCEPT ![k].phase = "filtered",
               ![k].audioDevices = SelectSeq(devices, LAMBDA d : d = "audioinput")]

\* the second then callback
winDevices(ps, k) ==
    [ps EXCEPT ![k].phase = "done",
               ![k].answers = Append(@, Len(ps[k].audioDevices) > 0)]

\* enumerateDevices rejected: no then callback runs and nothing catches
enumerateRejected(ps, k) == [ps EXCEPT ![k].phase = "rejected"]

\* ------------------------------------------------------------ the system
\* the platforms the controller is run on
EnvPool ==
    [recordSupport : BOOLEAN, fileSystem : BOOLEAN,
     types : {{<<"audio/webm">>, <<"audio/mp4">>, <<"audio/ogg">>},
              {<<"audio/mp4">>}}]

\* an id that was never registered, and a message type outside the switch
UnknownId == "uuid-0"
UnhandledMsg == 0

\* Media.onStatus arguments that end in one of the two logging branches
UnhandledCalls ==
    {[id |-> UnknownId, msgType |-> t, value |-> MEDIA_STOPPED] :
        t \in {MEDIA_STATE, MEDIA_DURATION, MEDIA_POSITION, MEDIA_ERROR}}
      \cup {[id |-> id, msgType |-> UnhandledMsg, value |-> MEDIA_STOPPED]}

\* seekTo arguments, in milliseconds
SeekPool == {2000}

Init ==
    /\ env \in EnvPool
    /\ mediaObjects = {id}
    /\ src \in SrcPool
    /\ mode = MODE_NONE /\ state = MEDIA_NONE
    /\ node = Null /\ recorder = 0
    /\ _duration = -1 /\ _position = -1
    /\ _recordFileMime = Undefined
    /\ duration = NoValue
    /\ recorders = <<>> /\ pendingRecord = <<>> /\ pendingLoad = <<>>
    /\ notes = <<>> /\ invoked = <<>>
    /\ calls = <<>> /\ thrown = FALSE /\ ret = NoRet
    /\ lastOp = "new"
    /\ budget = MaxCalls
    /\ devices = <<>> /\ probes = <<>>

\* ---- calls of the application
Play ==
    \E t \in BOOLEAN :
        LET m == play(Cur, t)
        IN  Len(m.pendingLoad) <= MaxPendingLoad /\ Invoke(m, "play")

Stop == Invoke(stop(Cur), "stop")

SeekTo ==
    \E t \in BOOLEAN, ms \in SeekPool :
        LET m == seekTo(Cur, ms, t)
        IN  Len(m.pendingLoad) <= MaxPendingLoad /\ Invoke(m, "seekTo")

Pause == Invoke(pause(Cur), "pause")

GetDuration == Invoke([Cur EXCEPT !.ret = Ret("return", getDuration(Cur))], "getDuration")

GetCurrentPosition == Invoke(getCurrentPosition(Cur), "getCurrentPosition")

SetVolume == Invoke(setVolume(Cur, 1), "setVolume")

SetRate == Invoke(setRate(Cur), "setRate")

GetCurrentAmplitude == Invoke(getCurrentAmplitude(Cur), "getCurrentAmplitude")

StartRecord ==
    \E o \in OptionsPool :
        LET m == startRecord(Cur, o)
        IN  /\ Len(m.pendingRecord) <= MaxPendingRecord
            /\ Len(m.pendingRecord) + Len(m.recorders) <= MaxRecorders
            /\ Invoke(m, "startRecord")

StopRecord == Invoke(stopRecord(Cur), "stopRecord")

PauseRecord == Invoke(pauseRecord(Cur), "pauseRecord")

ResumeRecord ==
    LET m == resumeRecord(Cur)
    IN  /\ Len(m.pendingRecord) <= MaxPendingRecord
        /\ Len(m.pendingRecord) + Len(m.recorders) <= MaxRecorders
        /\ Invoke(m, "resumeRecord")

Release == Invoke(release(Cur), "release")

\* Media.onStatus called from outside with arguments it does not handle
OnStatusUnhandled ==
    \E c \in UnhandledCalls :
        Invoke(onStatus(Cur, c.id, c.msgType, Note(c.msgType, c.value, NoCode, "")),
               "onStatus")

\* ---- events of the platform
NodePlaying == NodeActive(node) /\ Event(onplaying(Cur), "onplaying")

NodeEnded == NodeActive(node) /\ Event(onended(Cur), "onended")

NodeDurationChange ==
    /\ node # Null /\ node.src # <<>>
    /\ \E raw \in RawDurations : Event(ondurationchange(Cur, raw), "ondurationchange")

NodeError ==
    /\ node # Null /\ node.src # <<>>
    /\ \E c \in NodeErrorCodes : Event(onerror(Cur, c), "onerror")

ResolveSuccess ==
    \E k \in 1..Len(pendingLoad) : Event(resolveSuccess(Cur, k), "resolveSuccess")

ResolveError ==
    \E k \in 1..Len(pendingLoad) : Event(resolveError(Cur, k), "resolveError")

Acquired ==
    \E k \in 1..Len(pendingRecord) : Event(acquired(Cur, k), "acquired")

AcquireFailed ==
    \E k \in 1..Len(pendingRecord) : Event(acquireFailed(Cur, k), "acquireFailed")

\* start() at line 598 passes no timeslice, so the encoder flushes one blob
\* at stop(); further blobs arrive when MediaRecorder.requestData() is called
\* on the recorder the controller exposes as media.recorder (line 597)
RequestData ==
    \E rid \in 1..Len(recorders) :
        /\ rid = recorder
        /\ recorders[rid].state = "recording"
        /\ recorders[rid].produced + 1 < MaxChunks
        /\ Invoke(RecorderData(Cur, rid), "requestData")

RecorderEvent ==
    \E rid \in 1..Len(recorders) :
        /\ recorders[rid].events # <<>>
        /\ Event(recorderEvent(Cur, rid), "recorder." \o Head(recorders[rid].events))

FsSuccess ==
    \E rid \in 1..Len(recorders) :
        /\ recorders[rid].fin \in {"requestFileSystem", "getFile", "createWriter"}
        /\ Event(fsSuccess(Cur, rid), "fsSuccess")

FsError ==
    \E rid \in 1..Len(recorders) :
        /\ recorders[rid].fin \in {"requestFileSystem", "getFile"}
        /\ Event(fsError(Cur, rid), "fsError")

WriteEnd ==
    \E rid \in 1..Len(recorders) :
        /\ recorders[rid].fin \in {"truncate", "write"}
        /\ Event(onwriteend(Cur, rid), "onwriteend")

WriterError ==
    \E rid \in 1..Len(recorders) :
        /\ recorders[rid].fin \in {"truncate", "write"}
        /\ Event(writerError(Cur, rid), "writerError")

Next ==
    \/ Play \/ Stop \/ SeekTo \/ Pause
    \/ GetDuration \/ GetCurrentPosition \/ SetVolume \/ SetRate \/ GetCurrentAmplitude
    \/ StartRecord \/ StopRecord \/ PauseRecord \/ ResumeRecord \/ Release
    \/ OnStatusUnhandled
    \/ NodePlaying \/ NodeEnded \/ NodeDurationChange \/ NodeError
    \/ ResolveSuccess \/ ResolveError
    \/ Acquired \/ AcquireFailed \/ RequestData \/ RecorderEvent
    \/ FsSuccess \/ FsError \/ WriteEnd \/ WriterError

Spec == Init /\ [][Next]_vars

\* ---- Media.isRecordSupported, which touches no controller
controllerVars ==
    <<env, mediaObjects, mode, state, src, node, recorder, _duration, _position,
      _recordFileMime, duration, recorders, pendingRecord, pendingLoad,
      notes, invoked, calls, thrown, ret, lastOp, budget>>

InitSupport ==
    /\ env \in EnvPool
    /\ mediaObjects = {} /\ src = <<>>
    /\ mode = MODE_NONE /\ state = MEDIA_NONE
    /\ node = Null /\ recorder = 0
    /\ _duration = -1 /\ _position = -1
    /\ _recordFileMime = Undefined
    /\ duration = NoValue
    /\ recorders = <<>> /\ pendingRecord = <<>> /\ pendingLoad = <<>>
    /\ notes = <<>> /\ invoked = <<>>
    /\ calls = <<>> /\ thrown = FALSE /\ ret = NoRet
    /\ lastOp = "none"
    /\ budget = 0
    /\ devices \in DevicePool /\ probes = <<>>

Probe(ps) == probes' = ps /\ UNCHANGED <<controllerVars, devices>>

IsRecordSupported == Len(probes) < MaxProbes /\ Probe(isRecordSupported(probes))

TimerFired ==
    \E k \in 1..Len(probes) :
        probes[k].phase = "timer" /\ Probe(timerFired(probes, k))

EnumerateResolved ==
    \E k \in 1..Len(probes) :
        probes[k].phase = "enumerate" /\ Probe(filterDevices(probes, k))

EnumerateThen ==
    \E k \in 1..Len(probes) :
        probes[k].phase = "filtered" /\ Probe(winDevices(probes, k))

EnumerateRejected ==
    \E k \in 1..Len(probes) :
        probes[k].phase = "enumerate" /\ Probe(enumerateRejected(probes, k))

NextSupport ==
    \/ IsRecordSupported \/ TimerFired
    \/ EnumerateResolved \/ EnumerateThen \/ EnumerateRejected

SpecSupport == InitSupport /\ [][NextSupport]_vars

\* ================================================================== claims
StateNotes(ns) ==
    LET q == SelectSeq(ns, LAMBDA n : n.msgType = MEDIA_STATE)
    IN  [i \in 1..Len(q) |-> q[i].value]

ErrorCodes(ns) ==
    LET q == SelectSeq(ns, LAMBDA n : n.msgType = MEDIA_ERROR)
    IN  [i \in 1..Len(q) |-> q[i].code]

Range(q) == {q[i] : i \in 1..Len(q)}

IsBlob(s) == StartsWith(s, <<"blob", ":">>)

\* the fields of the controller
fields == <<mode, state, src, node, recorder, _duration, _position,
            _recordFileMime, duration>>

\* C1: play() in mode Record delivers exactly one MEDIA_ERR_ABORTED error and
\* changes nothing: mode, state, node, recorder and every other field stay,
\* and no platform call (no playback start) is issued.
C1_PlayInRecordAborts ==
    [][(lastOp' = "play" /\ mode = MODE_RECORD) =>
          /\ ErrorCodes(notes') = <<MEDIA_ERR_ABORTED>>
          /\ Len(notes') = 1
          /\ calls' = <<>>
          /\ ~thrown'
          /\ UNCHANGED <<fields, recorders, pendingRecord, pendingLoad>>]_vars

C1_Witness ==
    /\ lastOp = "play" /\ mode = MODE_RECORD /\ recorder # 0
    /\ ErrorCodes(notes) = <<MEDIA_ERR_ABORTED>>

\* C2: play() in state None on a streaming source that loads moves the state to
\* Starting with exactly one state notification (Starting); the "playing" event
\* in state Starting moves it to Running with exactly one state notification
\* (Running); the play() step itself never notifies Running.
C2_NoneStartingRunning ==
    [][/\ (lastOp' = "play" /\ state = MEDIA_NONE /\ isStreaming(src)
              /\ "node.load" \in Range(calls')) =>
            (state' = MEDIA_STARTING /\ StateNotes(notes') = <<MEDIA_STARTING>>)
       /\ (lastOp' = "onplaying" /\ state = MEDIA_STARTING) =>
            (state' = MEDIA_RUNNING /\ StateNotes(notes') = <<MEDIA_RUNNING>>)
       /\ (lastOp' = "play" /\ state = MEDIA_NONE) =>
            MEDIA_RUNNING \notin Range(StateNotes(notes'))]_vars

C2_Witness ==
    /\ lastOp = "onplaying" /\ state = MEDIA_RUNNING /\ mode = MODE_PLAY
    /\ StateNotes(notes) = <<MEDIA_RUNNING>>
    /\ node # Null /\ isStreaming(node.src)

\* C3 as stated: stop() in state Running or Paused ends with state Stopped and
\* the device position 0; in any other state it delivers NoneActiveError and
\* leaves the state unchanged.
C3_Original ==
    [][lastOp' = "stop" =>
          IF state \in {MEDIA_RUNNING, MEDIA_PAUSED}
          THEN state' = MEDIA_STOPPED /\ node' # Null /\ node'.currentTime = 0
          ELSE ErrorCodes(notes') = <<MEDIA_ERR_NONE_ACTIVE>> /\ state' = state]_vars

\* C3 amended: stop() with a playback device present and state Running or
\* Paused pauses the device, resets its position to 0 and ends with state
\* Stopped; in every other case (also Running or Paused without a device, as
\* while recording or after release()) it delivers NoneActiveError and leaves
\* state and device unchanged.
C3_StopWithDevice ==
    [][lastOp' = "stop" =>
          IF node # Null /\ state \in {MEDIA_RUNNING, MEDIA_PAUSED}
          THEN /\ state' = MEDIA_STOPPED
               /\ StateNotes(notes') = <<MEDIA_STOPPED>>
               /\ node' # Null /\ node'.currentTime = 0 /\ node'.paused
          ELSE /\ ErrorCodes(notes') = <<MEDIA_ERR_NONE_ACTIVE>>
               /\ Len(notes') = 1
               /\ state' = state /\ node' = node]_vars

C3_Witness ==
    /\ lastOp = "stop" /\ state = MEDIA_STOPPED
    /\ StateNotes(notes) = <<MEDIA_STOPPED>>
    /\ node # Null /\ node.currentTime = 0 /\ _position > 0

\* C4: whenever mode is Record, getDuration() returns -2.
C4_DurationInRecordMode == mode = MODE_RECORD => getDuration(Cur) = -2

\* the record target as the application names it: a non-empty source that is
\* not a blob reference
HasTarget == src # <<>> /\ ~IsBlob(src)

\* the extension of the target, lower-cased
TargetExt == ToLowerCase(FileExt(StripQueryHash(src)))

\* the mime type the documentation assigns to an extension
MimeTable ==
    [e \in {<<"webm">>, <<"mp4">>, <<"m4a">>, <<"ogg">>} |->
        IF e = <<"webm">> THEN <<"audio/webm">>
        ELSE IF e = <<"ogg">> THEN <<"audio/ogg">> ELSE <<"audio/mp4">>]

Recognised == TargetExt \in DOMAIN MimeTable

\* every value _recordFileMime can have had
MimePool == {Undefined, <<"audio/webm">>, <<"audio/mp4">>, <<"audio/ogg">>}

AbortMessages(ns) ==
    {ns[i].message : i \in {j \in 1..Len(ns) :
        ns[j].msgType = MEDIA_ERROR /\ ns[j].code = MEDIA_ERR_ABORTED}}

ExtensionMessage == "Error: Resource for recording must have webm/mp4/m4a/ogg extension"

\* C5: startRecord in mode None on a target with a recognised extension
\* (compared case-insensitively) never rejects the extension; when it requests
\* the microphone, the request carries the mime type of the table and
\* _recordFileMime is that type, whatever mime type was used before; when the
\* platform does not support that type it aborts instead; and the recorder
\* constructed when the acquisition resolves carries the mime type of its request.
C5_MimeFromExtension ==
    [][/\ (lastOp' = "startRecord" /\ mode = MODE_NONE /\ HasTarget /\ Recognised) =>
            /\ ExtensionMessage \notin AbortMessages(notes')
            /\ notes' = <<>> =>
                  /\ Len(pendingRecord') = Len(pendingRecord) + 1
                  /\ pendingRecord'[Len(pendingRecord')].useMimeType = MimeTable[TargetExt]
                  /\ _recordFileMime' = MimeTable[TargetExt]
                  /\ calls' = <<"getUserMedia">>
            /\ MimeTable[TargetExt] \notin env.types => notes' # <<>>
            /\ \A prev \in MimePool :
                  MimeOfExt(FileExt(StripQueryHash(src)), prev) = MimeTable[TargetExt]
       /\ lastOp' = "acquired" =>
            \E k \in 1..Len(pendingRecord) :
                /\ pendingRecord' = RemoveAt(pendingRecord, k)
                /\ recorders'[Len(recorders')].mimeType = pendingRecord[k].useMimeType
                /\ recorder' = Len(recorders')]_vars

C5_Witness ==
    /\ lastOp = "acquired" /\ recorder # 0
    /\ src = <<"clip", ".", "M4A">>
    /\ recorders[recorder].mimeType = <<"audio/mp4">>

\* C6: startRecord in mode None on a target whose extension is not recognised
\* while no mime type was used before, or whose mime type the platform does not
\* support, delivers exactly one MEDIA_ERR_ABORTED error and captures nothing:
\* no platform call, no pending acquisition, no recorder, mode stays None.
C6_BadTargetAborts ==
    [][(/\ lastOp' = "startRecord" /\ mode = MODE_NONE /\ HasTarget
        /\ \/ (TargetExt # <<>> /\ ~Recognised /\ ~Truthy(_recordFileMime))
           \/ (Recognised /\ MimeTable[TargetExt] \notin env.types)) =>
          /\ ErrorCodes(notes') = <<MEDIA_ERR_ABORTED>>
          /\ Len(notes') = 1
          /\ calls' = <<>>
          /\ ~thrown'
          /\ mode' = MODE_NONE
          /\ UNCHANGED <<fields, recorders, pendingRecord, pendingLoad>>]_vars

C6_Witness ==
    /\ lastOp = "startRecord" /\ src = <<"clip", ".", "xyz">>
    /\ AbortMessages(notes) = {ExtensionMessage}
    /\ mode = MODE_NONE /\ pendingRecord = <<>> /\ recorders = <<>>

\* C7: when the content write of a recording's file target completes, source
\* becomes the URL of the written file, which is not a blob reference; when a
\* recorder stops with no filesystem collaborator and the controller still
\* holds a recorder, source becomes a blob reference.
C7_SourceAfterFinalize ==
    [][/\ lastOp' = "onwriteend" =>
            \A rid \in 1..Len(recorders) :
                (recorders[rid].fin = "write" /\ recorders'[rid].fin = "done") =>
                    /\ ~IsBlob(src')
                    /\ StartsWith(src', <<"filesystem", ":">> \o applicationDirectory)
                    /\ LastPart(src', "/") = LastPart(recorders[rid].recordFile, "/")
                    /\ recorder' = 0 /\ mode' = MODE_NONE
       /\ (lastOp' = "recorder.stop" /\ ~env.fileSystem /\ recorder # 0) =>
            (IsBlob(src') /\ recorder' = 0 /\ mode' = MODE_NONE)]_vars

C7_Witness ==
    /\ lastOp = "onwriteend" /\ recorder = 0 /\ mode = MODE_NONE
    /\ src = <<"filesystem", ":">> \o applicationDirectory
                \o <<"temporary", "/", "rec", ".", "mp4">>

\* the handlers that do nothing but setState, and the value they set
SetStateOps ==
    [h \in {"onplaying", "onended", "recorder.start", "recorder.resume",
            "recorder.pause"} |->
        CASE h = "onended" -> MEDIA_STOPPED
          [] h = "recorder.pause" -> MEDIA_PAUSED
          [] OTHER -> MEDIA_RUNNING]

\* C8: setState(s) notifies the state change only when s differs from the
\* current state and always leaves state = s; of two setState calls with the
\* same value in succession, the second notifies nothing.
C8_SetStateOnce ==
    [][lastOp' \in DOMAIN SetStateOps =>
          /\ state' = SetStateOps[lastOp']
          /\ notes' = IF state = SetStateOps[lastOp'] THEN <<>>
                      ELSE <<Note(MEDIA_STATE, SetStateOps[lastOp'], NoCode, "")>>
          /\ (lastOp \in DOMAIN SetStateOps /\ SetStateOps[lastOp] = SetStateOps[lastOp'])
                => notes' = <<>>]_vars

C8_Witness ==
    /\ lastOp \in DOMAIN SetStateOps
    /\ state = SetStateOps[lastOp]
    /\ notes = <<>>

\* C9: a release() right after a release() issues no platform call, delivers
\* no notification, throws nothing and changes no field.
C9_SecondReleaseNoEffect ==
    [][(lastOp = "release" /\ lastOp' = "release") =>
          /\ calls' = <<>> /\ notes' = <<>> /\ ~thrown'
          /\ UNCHANGED <<fields, recorders, pendingRecord, pendingLoad>>]_vars

C9_Witness ==
    /\ lastOp = "release" /\ calls = <<>> /\ notes = <<>>
    /\ node = Null /\ state = MEDIA_STARTING
    /\ budget = MaxCalls - 3

\* C10: resumeRecord() with no recorder and mode None does exactly what
\* startRecord() without options does from the same state: the same
\* notifications, the same platform calls, the same pending acquisition and
\* the same fields.
C10_ResumeIsStart ==
    [][(lastOp' = "resumeRecord" /\ recorder = 0 /\ mode = MODE_NONE) =>
          LET m == startRecord(Cur, NoOptions)
          IN  /\ notes' = m.notes /\ calls' = m.calls /\ thrown' = m.thrown
              /\ pendingRecord' = m.pendingRecord
              /\ recorders' = m.recorders
              /\ mode' = m.mode /\ state' = m.state /\ src' = m.src
              /\ node' = m.node /\ recorder' = m.recorder
              /\ _recordFileMime' = m._recordFileMime
              /\ _duration' = m._duration /\ _position' = m._position]_vars

C10_Witness ==
    /\ lastOp = "resumeRecord" /\ calls = <<"getUserMedia">>
    /\ recorder = 0 /\ mode = MODE_NONE /\ recorders = <<>>
    /\ Len(pendingRecord) = 1 /\ pendingRecord[1].fileFallback

\* C11: mode changes only from None to Play, from None to Record, or back to
\* None; stop() of a playing controller and release() of a playing or of a
\* recording controller leave mode = None.
C11_ModeBackToNone ==
    [][/\ mode' # mode =>
            \/ (mode = MODE_NONE /\ mode' \in {MODE_PLAY, MODE_RECORD})
            \/ mode' = MODE_NONE
       /\ (lastOp' = "stop" /\ mode = MODE_PLAY /\ node # Null
              /\ state \in {MEDIA_RUNNING, MEDIA_PAUSED}) => mode' = MODE_NONE
       /\ (lastOp' = "release" /\ mode = MODE_PLAY /\ node # Null) => mode' = MODE_NONE
       /\ (lastOp' = "release" /\ mode = MODE_RECORD /\ recorder # 0) =>
            mode' = MODE_NONE]_vars

\* C12: in every reachable state at most one of the playback handle (node) and
\* the recording handle (recorder) is present.
C12_OneHandle == node = Null \/ recorder = 0

\* C13: startRecord() in mode Play or mode Record delivers exactly one
\* MEDIA_ERR_ABORTED error and does nothing else: no platform call (no
\* microphone acquisition), no pending acquisition added, no exception, and
\* mode, state, source, recorder and every other field unchanged.
C13_StartRecordRefused ==
    [][(lastOp' = "startRecord" /\ mode \in {MODE_PLAY, MODE_RECORD}) =>
          /\ ErrorCodes(notes') = <<MEDIA_ERR_ABORTED>>
          /\ Len(notes') = 1
          /\ calls' = <<>>
          /\ ~thrown'
          /\ UNCHANGED <<fields, recorders, pendingRecord, pendingLoad>>]_vars

C13_Witness ==
    /\ lastOp = "startRecord" /\ mode = MODE_RECORD /\ recorder # 0
    /\ AbortMessages(notes) = {"Error: Already recording."}
    /\ calls = <<>> /\ pendingRecord = <<>>

\* C14 as stated: pause() in state Running pauses the device and ends with
\* state Paused and one Paused notification; in any other state it delivers
\* NoneActiveError and leaves the state unchanged.
C14_Original ==
    [][lastOp' = "pause" =>
          IF state = MEDIA_RUNNING
          THEN /\ state' = MEDIA_PAUSED
               /\ StateNotes(notes') = <<MEDIA_PAUSED>>
               /\ calls' = <<"node.pause">>
          ELSE ErrorCodes(notes') = <<MEDIA_ERR_NONE_ACTIVE>> /\ state' = state]_vars

\* C14 amended: pause() with a playback device present and state Running
\* pauses the device and ends with state Paused and exactly one notification
\* (Paused); in every other case (also state Running without a device, as
\* while recording or after release()) it delivers exactly one notification,
\* NoneActiveError, issues no platform call and leaves state and device
\* unchanged.
C14_PauseWithDevice ==
    [][lastOp' = "pause" =>
          IF node # Null /\ state = MEDIA_RUNNING
          THEN /\ state' = MEDIA_PAUSED
               /\ notes' = <<Note(MEDIA_STATE, MEDIA_PAUSED, NoCode, "")>>
               /\ calls' = <<"node.pause">>
               /\ node' # Null /\ node'.paused
               /\ ~thrown'
          ELSE /\ ErrorCodes(notes') = <<MEDIA_ERR_NONE_ACTIVE>>
               /\ Len(notes') = 1
               /\ calls' = <<>>
               /\ ~thrown'
               /\ state' = state /\ node' = node]_vars

C14_Witness ==
    /\ lastOp = "pause" /\ state = MEDIA_PAUSED /\ mode = MODE_PLAY
    /\ StateNotes(notes) = <<MEDIA_PAUSED>>
    /\ node # Null /\ node.paused /\ node.src # <<>>

\* C15: release() never throws, whatever the state; after it node and recorder
\* are both null; the device is paused exactly when one existed, and before
\* anything else; the recorder is told to stop exactly when one was held and
\* it was actively recording (not paused, not inactive); nothing else is
\* called, nothing is notified and no other field changes.
C15_ReleaseAnyState ==
    [][lastOp' = "release" =>
          LET hadNode == node # Null
              recording == recorder # 0 /\ recorders[recorder].state = "recording"
          IN  /\ ~thrown'
              /\ node' = Null /\ recorder' = 0
              /\ calls' = (IF hadNode THEN <<"node.pause">> ELSE <<>>)
                            \o (IF recording THEN <<"recorder.stop">> ELSE <<>>)
              /\ recording => recorders'[recorder].state = "inactive"
              /\ (recorder # 0 /\ ~recording) =>
                    recorders'[recorder].state = recorders[recorder].state
              /\ notes' = <<>>
              /\ UNCHANGED <<mode, state, src, _duration, _position>>]_vars

\* a paused recorder is dropped without being stopped
C15_Witness ==
    /\ lastOp = "release" /\ ~thrown /\ calls = <<>>
    /\ node = Null /\ recorder = 0
    /\ Len(recorders) = 1 /\ recorders[1].state = "paused"

\* the operations that call Media.onStatus(this.id, ...) on every path
AlwaysNotify == {"pause", "stop", "setRate", "getCurrentAmplitude"}

\* C16: the registry holds the controller's id from construction on and no
\* step changes it, release() included; so the operations that report through
\* Media.onStatus(id, ...) on every path still reach the controller's
\* callbacks with exactly one notification, also after release().
C16_RegistryKept ==
    [][/\ id \in mediaObjects /\ mediaObjects' = mediaObjects
       /\ lastOp' \in AlwaysNotify => Len(notes') = 1
       /\ lastOp' \in {"setRate", "getCurrentAmplitude"} =>
            notes' = <<Note(MEDIA_ERROR, -1, NoCode, "Not supported")>>]_vars

\* a notification delivered after release(): only release() leaves a
\* controller in mode Play and state Starting or Running without a device
C16_Witness ==
    /\ lastOp = "setRate" /\ Len(notes) = 1
    /\ mode = MODE_PLAY /\ state \in {MEDIA_STARTING, MEDIA_RUNNING} /\ node = Null
    /\ id \in mediaObjects

\* the steps of a recording's finalization: the encoder's stop event and the
\* file-system and writer callbacks
FinalizeOps == {"recorder.stop", "fsSuccess", "fsError", "onwriteend", "writerError"}

\* release() is the only step that clears recorder and leaves mode = Record
Released == mode = MODE_RECORD /\ recorder = 0

\* C17: once the controller was released, every finalization step is a no-op
\* for it: source, mode, state, duration and position keep their values,
\* nothing is notified, and the only platform call is stopping live tracks.
C17_ReleasedFinalizeNoOp ==
    [][(lastOp' \in FinalizeOps /\ Released) =>
          /\ UNCHANGED <<src, mode, state, _duration, _position>>
          /\ notes' = <<>>
          /\ Range(calls') \subseteq {"track.stop"}]_vars

\* a step in which function finish() ran: a blob finish inside the stop event,
\* a failed file-system request, a writer error, or the end of the content write
FinishRan ==
    \/ lastOp' \in {"fsError", "writerError"}
    \/ lastOp' = "recorder.stop" /\ recorder # 0 /\ recorder' = 0
    \/ /\ lastOp' = "onwriteend"
       /\ \E rid \in 1..Len(recorders) :
              recorders[rid].fin = "write" /\ recorders'[rid].fin = "done"

\* C18: a step that completes a finalization (by blob, by file or by abort)
\* ends with duration -1, position -1, no recorder, mode None and state None,
\* and Stopped was notified before state became None: in that step (and no
\* other state is notified in it), unless the state was Stopped already; and
\* outside such a step the state never changes to Stopped, or to anything
\* else, without exactly that notification.
C18_AfterFinalize ==
    [][/\ FinishRan =>
            /\ _duration' = -1 /\ _position' = -1
            /\ recorder' = 0
            /\ mode' = MODE_NONE /\ state' = MEDIA_NONE
            /\ Range(StateNotes(notes')) \subseteq {MEDIA_STOPPED}
            /\ state # MEDIA_STOPPED => StateNotes(notes') # <<>>
       /\ (~FinishRan /\ state' # state) => StateNotes(notes') = <<state'>>]_vars

\* a finalization that ended by abort
C18_Witness ==
    /\ lastOp = "fsError"
    /\ ErrorCodes(notes) = <<MEDIA_ERR_ABORTED>>
    /\ StateNotes(notes) = <<MEDIA_STOPPED>>
    /\ _duration = -1 /\ _position = -1 /\ recorder = 0
    /\ mode = MODE_NONE /\ state = MEDIA_NONE

\* C19: when a microphone acquisition (or the encoder's construction) fails,
\* exactly one MEDIA_ERR_ABORTED error with the "Can't start record" message
\* is delivered and the controller is left with mode = None and no recorder.
C19_AcquireFailureLeavesNone ==
    [][lastOp' = "acquireFailed" =>
          /\ ErrorCodes(notes') = <<MEDIA_ERR_ABORTED>>
          /\ AbortMessages(notes') = {"Error: Can't start record. "}
          /\ Len(notes') = 1
          /\ mode' = MODE_NONE /\ recorder' = 0]_vars

\* C20: when persisting a finalized recording fails (file-system request,
\* file lookup or writer error), the step ends, for the recorder concerned,
\* with a blob source and no error notification if blob fallback is enabled,
\* and with one MEDIA_ERR_ABORTED error and the source unchanged if it is not.
C20_PersistFailure ==
    [][lastOp' \in {"fsError", "writerError"} =>
          \E rid \in 1..Len(recorders) :
              /\ recorders'[rid].fin # recorders[rid].fin
              /\ IF recorders[rid].fileFallback
                 THEN IsBlob(src') /\ ErrorCodes(notes') = <<>>
                 ELSE ErrorCodes(notes') = <<MEDIA_ERR_ABORTED>> /\ src' = src]_vars

\* a record target with a scheme that lies under neither the cache nor the
\* data directory
OutsideDirs ==
    /\ hasScheme(src) /\ ~IsBlob(src)
    /\ IndexOf(src, cacheDirectory) = -1 /\ IndexOf(src, dataDirectory) = -1
    /\ ~StartsWith(src, <<"filesystem", ":">> \o applicationDirectory)

\* startRecord arguments that enable, and that disable, the blob fallback
FallbackOn == {NoOptions, [kind |-> "object", has |-> TRUE, fileFallback |-> TRUE]}
FallbackOff == {[kind |-> "object", has |-> TRUE, fileFallback |-> FALSE]}

\* C21: with a filesystem present, startRecord() in mode None on a target
\* outside the cache and data directories aborts when the blob fallback is
\* disabled, and with the fallback enabled notifies no error and requests
\* the microphone.
C21_FallbackOutsideDirs ==
    (mode = MODE_NONE /\ env.recordSupport /\ env.fileSystem /\ OutsideDirs) =>
        /\ \A o \in FallbackOff :
              ErrorCodes(startRecord(Cur, o).notes) = <<MEDIA_ERR_ABORTED>>
        /\ \A o \in FallbackOn :
              /\ startRecord(Cur, o).notes = <<>>
              /\ startRecord(Cur, o).calls = <<"getUserMedia">>

\* the operations an application calls on a controller
PublicOps ==
    {"play", "stop", "pause", "seekTo", "getDuration", "getCurrentPosition",
     "setVolume", "startRecord", "stopRecord", "pauseRecord", "resumeRecord",
     "release"}

\* C22: no public operation ends by throwing to its caller.
C22_NoThrow == lastOp \in PublicOps => ~thrown

\* a call of isRecordSupported with nothing left to run
Settled(p) == p.phase \in {"done", "rejected"}

\* C23: every isRecordSupported call whose timer or promise has settled has
\* invoked its callback exactly once; no call invokes it more than once, nor
\* before the call returned; and the value passed is false without the
\* capture API, else true exactly if the device list holds an audio input.
C23_AnsweredOnce ==
    \A k \in 1..Len(probes) :
        /\ Len(probes[k].answers) <= 1
        /\ Settled(probes[k]) <=> Len(probes[k].answers) = 1
        /\ probes[k].answers # <<>> =>
              probes[k].answers[1] =
                  (env.recordSupport /\ \E i \in 1..Len(devices) : devices[i] = "audioinput")

\* the callbacks a notification is expected to invoke: the status callback for
\* a state notification, followed by the success callback when the value is
\* Stopped, and never the success callback otherwise
Expected(n) ==
    CASE n.msgType = MEDIA_STATE /\ n.value = MEDIA_STOPPED ->
            <<"statusCallback", "successCallback">>
      [] n.msgType = MEDIA_STATE -> <<"statusCallback">>
      [] n.msgType = MEDIA_DURATION -> <<"durationUpdateCallback">>
      [] n.msgType = MEDIA_ERROR -> <<"errorCallback">>
      [] OTHER -> <<>>

RECURSIVE ExpectedAll(_)
ExpectedAll(ns) == IF ns = <<>> THEN <<>> ELSE Expected(Head(ns)) \o ExpectedAll(Tail(ns))

\* C24: in every step the callbacks invoked are those of the notifications of
\* the step, in order: the success callback once for each state notification
\* with value Stopped, right after that notification's status callback, and
\* for no other notification.
C24_SuccessOnStopped ==
    /\ invoked = ExpectedAll(notes)
    /\ Cardinality({i \in 1..Len(invoked) : invoked[i] = "successCallback"})
          = Cardinality({i \in 1..Len(notes) :
                notes[i].msgType = MEDIA_STATE /\ notes[i].value = MEDIA_STOPPED})
    /\ \A i \in 1..Len(invoked) :
          invoked[i] = "successCallback" => (i > 1 /\ invoked[i - 1] = "statusCallback")

\* a playback that ended
C24_Witness ==
    /\ lastOp = "onended" /\ StateNotes(notes) = <<MEDIA_STOPPED>>
    /\ invoked = <<"statusCallback", "successCallback">>

\* C25: Media.onStatus called with an id that is not registered, or with a
\* message type outside its switch, invokes no callback, delivers nothing,
\* does not throw and changes no field of the controller.
C25_UnhandledStatus ==
    [][lastOp' = "onStatus" =>
          /\ invoked' = <<>> /\ notes' = <<>> /\ calls' = <<>>
          /\ ~thrown'
          /\ UNCHANGED <<fields, mediaObjects, recorders, pendingRecord, pendingLoad>>]_vars

\* an unhandled call on a controller that is playing
C25_Witness ==
    /\ lastOp = "onStatus" /\ invoked = <<>> /\ ~thrown
    /\ state = MEDIA_RUNNING /\ node # Null /\ _duration > 0

\* the query loadAudioFile appends to a resolved local-file URL
CacheBuster == <<"?", "__t=", "now">>

\* the source the device was loaded with is the controller's current source
SourceUnchanged == node # Null /\ node.src \in {src, src \o CacheBuster}

\* C26: play() or seekTo() in state Stopped with a device: when the source is
\* the one the device was loaded with, the device is kept as it is, neither
\* paused nor reloaded; when it differs, the device is paused and discarded
\* first, and a new one is created and loaded.
C26_StoppedReuse ==
    [][(lastOp' \in {"play", "seekTo"} /\ state = MEDIA_STOPPED
            /\ mode # MODE_RECORD /\ node # Null) =>
          IF SourceUnchanged
          THEN /\ "node.pause" \notin Range(calls')
               /\ "node.load" \notin Range(calls')
               /\ "resolveLocalFileSystemURL" \notin Range(calls')
               /\ node' # Null /\ node'.src = node.src
          ELSE /\ calls' # <<>> /\ Head(calls') = "node.pause"
               /\ \/ node' = Null
                  \/ "node.load" \in Range(calls')
                  \/ "resolveLocalFileSystemURL" \in Range(calls')
                  \/ ErrorCodes(notes') = <<MEDIA_ERR_ABORTED>>]_vars

\* the callbacks readyPlayer is called with
ReadyCallbacks == {PlayCb} \cup {SeekCb(ms \div 1000) : ms \in SeekPool}

\* C27: in state None, readyPlayer called when creating the device throws, or
\* when no source is set, delivers exactly one MEDIA_ERR_ABORTED error and
\* answers not ready: no load, no playback start, no seek, no exception, and
\* the state stays None.
C27_NoneNotReady ==
    state = MEDIA_NONE =>
        \A cb \in ReadyCallbacks, audioThrows \in BOOLEAN :
            (audioThrows \/ src = <<>>) =>
                LET m == readyPlayer(Cur, cb, audioThrows)
                IN  /\ ErrorCodes(m.notes) = <<MEDIA_ERR_ABORTED>>
                    /\ Len(m.notes) = 1
                    /\ m.state = MEDIA_NONE
                    /\ m.calls = <<>> /\ ~m.thrown
                    /\ m._position = _position
                    /\ m.pendingLoad = pendingLoad

\* play() on a controller without a source
C27_Witness ==
    /\ lastOp = "play" /\ state = MEDIA_NONE /\ src = <<>>
    /\ AbortMessages(notes) = {"Error: no source provided"}
    /\ calls = <<>> /\ ~thrown

\* C28: stopRecord() and pauseRecord() without a recorder call nothing,
\* notify nothing and change nothing; stopRecord() calls stop() exactly when a
\* recorder is held and it is not inactive; pauseRecord() calls pause()
\* exactly when a recorder is held and it is recording.
C28_RecordSignals ==
    [][/\ (lastOp' \in {"stopRecord", "pauseRecord"} /\ recorder = 0) =>
            /\ calls' = <<>> /\ notes' = <<>> /\ ~thrown'
            /\ UNCHANGED <<fields, recorders, pendingRecord, pendingLoad>>
       /\ lastOp' = "stopRecord" =>
            calls' = IF recorder # 0 /\ recorders[recorder].state # "inactive"
                     THEN <<"recorder.stop">> ELSE <<>>
       /\ lastOp' = "pauseRecord" =>
            calls' = IF recorder # 0 /\ recorders[recorder].state = "recording"
                     THEN <<"recorder.pause">> ELSE <<>>]_vars

\* the blobs 1..n in the order the encoder produced them
Blobs(n) == [i \in 1..n |-> ToString(i)]

\* C29: the encoder's events drive the state (start and resume set Running,
\* pause sets Paused, stop starts finalization); every dataavailable event
\* appends its blob to the buffer, so the buffer always holds the delivered
\* blobs in the order produced, and the artifact assembled at stop holds
\* exactly the blobs the encoder produced, in that order.
C29_EncoderEvents ==
    /\ lastOp \in {"recorder.start", "recorder.resume"} => state = MEDIA_RUNNING
    /\ lastOp = "recorder.pause" => state = MEDIA_PAUSED
    /\ (lastOp = "recorder.stop" /\ recorder # 0 /\ ~thrown) =>
            \E rid \in 1..Len(recorders) :
                /\ recorders[rid].fin = "requestFileSystem"
                /\ recorders[rid].content # Undefined
    /\ \A rid \in 1..Len(recorders) :
        LET r == recorders[rid]
        IN  /\ r.content = Undefined =>
                    r.chunks \o r.blobs = Blobs(Len(r.chunks) + Len(r.blobs))
            /\ (r.state # "inactive" \/ r.events # <<>>) =>
                    Len(r.chunks) + Len(r.blobs) = r.produced
            /\ r.content # Undefined =>
                    /\ r.content = Blobs(r.produced)
                    /\ r.state = "inactive" /\ r.events = <<>> /\ ~r.live

C29_Witness ==
    \E rid \in 1..Len(recorders) :
        /\ recorders[rid].content = Blobs(MaxChunks)
        /\ recorders[rid].fin = "write"

\* the states defined at lines 266-272
MediaStates ==
    {MEDIA_NONE, MEDIA_STARTING, MEDIA_RUNNING, MEDIA_PAUSED, MEDIA_STOPPED}

\* C30: in every reachable state, state is one of None, Starting, Running,
\* Paused, Stopped; it is never the Loading value readyPlayer tests for, not
\* even while a local source is still being resolved, so the Loading branch
\* of readyPlayer is never taken.
C30_NoLoadingState ==
    /\ state \in MediaStates
    /\ state # MEDIA_LOADING
    /\ MEDIA_LOADING \notin MediaStates

C30_Witness ==
    /\ lastOp \in {"play", "seekTo"}
    /\ pendingLoad # <<>>
    /\ state = MEDIA_NONE

\* startRecord arguments that do not set fileFallback to false
FallbackNotRefused == {o \in OptionsPool : ~(o.has /\ ~o.fileFallback)}

\* C31: the blob fallback is enabled unless fileFallback is explicitly false:
\* startRecord() without options and startRecord(options) with an object that
\* does not set fileFallback act alike; with the fallback disabled and no
\* filesystem or no non-blob source, startRecord() in mode None notifies an
\* AbortedError and requests no capture.
C31_FallbackDefault ==
    (mode = MODE_NONE /\ env.recordSupport) =>
        /\ \A o \in FallbackNotRefused :
              startRecord(Cur, o) = startRecord(Cur, NoOptions)
        /\ (~env.fileSystem \/ src = <<>> \/ IsBlob(src)) =>
              \A o \in FallbackOff :
                  /\ ErrorCodes(startRecord(Cur, o).notes) = <<MEDIA_ERR_ABORTED>>
                  /\ startRecord(Cur, o).calls = <<>>
                  /\ startRecord(Cur, o).pendingRecord = pendingRecord

\* recorder rid went from one stage of its finalization to another in this step
Stage(rid, from, to) ==
    recorders[rid].fin = from /\ recorders'[rid].fin = to

\* C32: persisting to a file goes truncate, then write, then source: the
\* truncation is requested when the writer is created, the content is written
\* only in the write-end handler that follows the truncation, and source
\* becomes the file's URL, with finish, only in the write-end handler that
\* follows the content write.
C32_TruncateWriteSource ==
    [][/\ "fileWriter.truncate" \in Range(calls') =>
            /\ lastOp' = "fsSuccess"
            /\ \E rid \in 1..Len(recorders) : Stage(rid, "createWriter", "truncate")
       /\ "fileWriter.write" \in Range(calls') =>
            /\ lastOp' \in {"onwriteend", "writerError"}
            /\ \E rid \in 1..Len(recorders) : Stage(rid, "truncate", "write")
       /\ (lastOp' \in FinalizeOps /\ src' # src /\ ~IsBlob(src')) =>
            /\ lastOp' \in {"onwriteend", "writerError"}
            /\ \E rid \in 1..Len(recorders) :
                  /\ Stage(rid, "write", "done")
                  /\ src' = EntryURL(recorders[rid].recordFile)
       /\ lastOp' = "onwriteend" =>
            \E rid \in 1..Len(recorders) :
                \/ /\ Stage(rid, "truncate", "write")
                   /\ calls' = <<"fileWriter.write">>
                   /\ notes' = <<>> /\ UNCHANGED fields
                \/ /\ Stage(rid, "write", "done")
                   /\ src' = EntryURL(recorders[rid].recordFile)
                   /\ calls' = <<>>
                   /\ recorder' = 0 /\ mode' = MODE_NONE]_vars

C32_Witness ==
    /\ lastOp = "onwriteend" /\ calls = <<>>
    /\ StartsWith(src, <<"filesystem", ":">>)
    /\ \E rid \in 1..Len(recorders) :
          recorders[rid].fin = "done" /\ recorders[rid].content = Blobs(1)

\* the recorders that were started and have not been stopped
Started == {rid \in 1..Len(recorders) : recorders[rid].state # "inactive"}

\* C33: at most one recorder of the controller is started at any time, also
\* when startRecord() or resumeRecord() is called again while a microphone
\* acquisition is pending, and a started recorder is the one the controller
\* holds in recorder.
C33_OneRecorder ==
    /\ Cardinality(Started) <= 1
    /\ (mode = MODE_RECORD /\ recorder # 0) => Started \subseteq {recorder}

\* C34: in every reachable state with mode = Play and state Starting, Running
\* or Paused the controller holds a playback device, release() included, so
\* a play() that readyPlayer reports ready never finds node null.
C34_DeviceHeld ==
    /\ (mode = MODE_PLAY /\ state \in {MEDIA_STARTING, MEDIA_RUNNING, MEDIA_PAUSED}) =>
            node # Null
    /\ lastOp = "play" => ~thrown

\* C35: in every reachable state, mode = Record exactly when the controller
\* holds a recorder, also after release() of an active recording and after
\* the stop event that follows it.
C35_RecordIffRecorder == (mode = MODE_RECORD) <=> (recorder # 0)

\* how often x occurs in the sequence q
Count(q, x) == Cardinality({i \in 1..Len(q) : q[i] = x})

\* C36: a finalization step runs finish at most once: whatever the order of
\* the writer's write-end and error events and of the file-system failure
\* callbacks, it delivers at most one Stopped notification and invokes the
\* success callback at most once, and exactly once each when it completes a
\* finalization that began in a state other than Stopped.
C36_FinishOnce ==
    [][lastOp' \in FinalizeOps =>
          /\ Count(StateNotes(notes'), MEDIA_STOPPED) <= 1
          /\ Count(invoked', "successCallback") <= 1
          /\ (FinishRan /\ state # MEDIA_STOPPED) =>
                /\ Count(StateNotes(notes'), MEDIA_STOPPED) = 1
                /\ Count(invoked', "successCallback") = 1]_vars

\* ---- the system under the proviso of C37: every queued encoder event is
\* eventually delivered and every file-system request eventually reports
\* success or failure
Answered ==
    \A rid \in 1..MaxRecorders :
        /\ WF_vars(/\ rid <= Len(recorders)
                   /\ recorders[rid].events # <<>>
                   /\ Event(recorderEvent(Cur, rid),
                            "recorder." \o Head(recorders[rid].events)))
        /\ WF_vars(/\ rid <= Len(recorders)
                   /\ recorders[rid].fin \in {"requestFileSystem", "getFile", "createWriter"}
                   /\ \/ Event(fsSuccess(Cur, rid), "fsSuccess")
                      \/ /\ recorders[rid].fin # "createWriter"
                         /\ Event(fsError(Cur, rid), "fsError"))
        /\ WF_vars(/\ rid <= Len(recorders)
                   /\ recorders[rid].fin \in {"truncate", "write"}
                   /\ \/ Event(onwriteend(Cur, rid), "onwriteend")
                      \/ Event(writerError(Cur, rid), "writerError"))

SpecAnswered == Init /\ [][Next]_vars /\ Answered

\* C37: after stopRecord() on an active recording, finalization eventually
\* completes with recorder = null and mode = None.
C37_FinalizationCompletes ==
    (/\ lastOp = "stopRecord" /\ recorder # 0
     /\ calls = <<"recorder.stop">>
     /\ recorders[recorder].events # <<>>
     /\ recorders[recorder].events[Len(recorders[recorder].events)] = "stop")
        ~> (recorder = 0 /\ mode = MODE_NONE)

\* C38: when play() or seekTo() finds state Stopped and discards the device
\* because its source is not the controller's, the last known duration is
\* reset: getDuration() returns -1 after the step, and keeps returning -1
\* until a duration update is delivered.
C38_DurationReset ==
    [][/\ (lastOp' \in {"play", "seekTo"} /\ state = MEDIA_STOPPED
             /\ mode # MODE_RECORD /\ node # Null /\ NodeSrc(node) # src) =>
            getDuration(Cur)' = -1
       /\ (lastOp' # "ondurationchange" /\ getDuration(Cur) = -1) =>
            getDuration(Cur)' \in {-1, -2}]_vars

\* C39: while a local-file resolution is pending, play(), seekTo() and
\* release() are safe: play() and seekTo() create no second device and start
\* no second resolution, a resolution's continuation loads and starts the
\* device at most once, and it never runs into a discarded (null) device.
C39_PendingLoadSafe ==
    [][/\ (lastOp' \in {"play", "seekTo"} /\ pendingLoad # <<>>) =>
            /\ node' = node
            /\ pendingLoad' = pendingLoad
       /\ lastOp' \in {"resolveSuccess", "resolveError"} =>
            /\ ~thrown'
            /\ Count(calls', "node.load") <= 1
            /\ Count(calls', "node.play") <= 1
       /\ lastOp' = "resolveSuccess" => node' # Null]_vars

\* release() was called while a microphone acquisition was pending and the
\* acquisition completes in this step
AcquiredAfterRelease ==
    lastOp = "release" /\ pendingRecord # <<>> /\ lastOp' = "acquired"

\* C40: an acquisition that completes after release() starts no recording:
\* recorder stays null, mode stays None, no recorder is started.
C40_ReleaseCancelsAcquisition ==
    [][AcquiredAfterRelease =>
          /\ recorder' = recorder /\ mode' = mode
          /\ "recorder.start" \notin Range(calls')
          /\ Len(recorders') = Len(recorders)]_vars

====
